---- MODULE Spec2Model ----
(***************************************************************************)
(* sf_mini_core: the exported C function sf_core_full_version() and its    *)
(* callers.  The function reads the static VERSION (a &str, i.e. a pointer *)
(* and a length, over the bytes of the literal "0.0.1\0") and returns the  *)
(* pointer as a *const c_char.  A caller checks the pointer against NULL,  *)
(* decodes the C string behind it byte by byte (CStr::from_ptr), validates *)
(* it as UTF-8 (to_str) and compares it with "0.0.1".                      *)
(*                                                                         *)
(* Bytes are numbers 0..255; characters are their ASCII codes:             *)
(*   '0' = 48, '1' = 49, '.' = 46, NUL = 0.                                *)
(* Memory is a function from addresses to bytes whose domain is the        *)
(* allocation; an address outside the domain is out of bounds.             *)
(***************************************************************************)
EXTENDS Integers, Sequences, FiniteSets, TLC

\* number of threads calling the function concurrently
NumThreads == 2
\* number of calls each thread makes
MaxCalls == 2
\* the linker places the literal at one of the addresses 1..MaxBase
MaxBase == 2

Threads == 1..NumThreads
Byte == 0..255

\* the null pointer
NULL == 0

\* a VERSION literal of a release that was not updated: "0.0.2\0"
VERSION_other == <<48, 46, 48, 46, 50, 0>>
\* a VERSION literal without the patch number: "0.0\0"
VERSION_two_part == <<48, 46, 48, 0>>
\* a VERSION literal whose terminator was forgotten: "0.0.1"
VERSION_unterminated == <<48, 46, 48, 46, 49>>

\* static VERSION: &str = "0.0.1\0";  the bytes of the literal
VERSION == <<48, 46, 48, 46, 49, 0>>

\* the literal the caller compares with: "0.0.1"
Expected == <<48, 46, 48, 46, 49>>

VARIABLES
  rodata,    \* the bytes of the string literal: address -> byte
  version,   \* the static VERSION: [ptr, len]
  pc,        \* per thread: where it is
  slice,     \* per thread: the &str loaded from VERSION inside the function
  ret,       \* per thread: the pointer the current call returned
  cursor,    \* per thread: offset of the byte CStr::from_ptr reads next
  decoded,   \* per thread: the bytes read before the terminator
  calls,     \* per thread: number of completed calls
  held,      \* per thread: the pointer kept from its first call
  observed   \* per thread: the content decoded by each completed call

vars == <<rodata, version, pc, slice, ret, cursor, decoded, calls, held, observed>>

NoSlice == [ptr |-> NULL, len |-> 0]

----------------------------------------------------------------------------
(* pure helpers *)

\* a cast that loses the pointer
as_ptr_null(s) == NULL

\* str::as_ptr() as *const c_char: the data pointer of the slice
as_ptr(s) == s.ptr

\* ptr.is_null()
is_null(p) == p = NULL

\* str::is_empty()
is_empty(s) == Len(s) = 0

\* a continuation byte 10xxxxxx
IsCont(b) == b >= 128 /\ b <= 191

\* core::str::from_utf8 (behind CStr::to_str): is s well-formed UTF-8 from i on
RECURSIVE Utf8From(_, _)
Utf8From(s, i) ==
  IF i > Len(s) THEN TRUE
  ELSE LET b == s[i]
           n == Len(s) - i
       IN  IF b < 128 THEN Utf8From(s, i + 1)
           ELSE IF b >= 194 /\ b <= 223
             THEN n >= 1 /\ IsCont(s[i + 1]) /\ Utf8From(s, i + 2)
           ELSE IF b >= 224 /\ b <= 239
             THEN /\ n >= 2
                  /\ IsCont(s[i + 1]) /\ IsCont(s[i + 2])
                  /\ (b = 224 => s[i + 1] >= 160)
                  /\ (b = 237 => s[i + 1] <= 159)
                  /\ Utf8From(s, i + 3)
           ELSE IF b >= 240 /\ b <= 244
             THEN /\ n >= 3
                  /\ IsCont(s[i + 1]) /\ IsCont(s[i + 2]) /\ IsCont(s[i + 3])
                  /\ (b = 240 => s[i + 1] >= 144)
                  /\ (b = 244 => s[i + 1] <= 143)
                  /\ Utf8From(s, i + 4)
           ELSE FALSE

\* CStr::to_str() is Ok
to_str_ok(s) == Utf8From(s, 1)

\* CStr::from_ptr(p) over memory m, as one function: the bytes from p up to the
\* first zero byte; a read outside m ends the result with -1
RECURSIVE from_ptr(_, _)
from_ptr(m, p) ==
  IF p \notin DOMAIN m THEN <<-1>>
  ELSE IF m[p] = 0 THEN <<>>
  ELSE <<m[p]>> \o from_ptr(m, p + 1)

----------------------------------------------------------------------------
(* initial state: the image of the process after loading *)

Init ==
  /\ \E base \in 1..MaxBase :
       /\ rodata = [a \in base..(base + Len(VERSION) - 1) |-> VERSION[a - base + 1]]
       /\ version = [ptr |-> base, len |-> Len(VERSION)]
  /\ pc = [t \in Threads |-> "idle"]
  /\ slice = [t \in Threads |-> NoSlice]
  /\ ret = [t \in Threads |-> NULL]
  /\ cursor = [t \in Threads |-> 0]
  /\ decoded = [t \in Threads |-> <<>>]
  /\ calls = [t \in Threads |-> 0]
  /\ held = [t \in Threads |-> NULL]
  /\ observed = [t \in Threads |-> <<>>]

----------------------------------------------------------------------------
(* the function *)

\* let version_ptr = sf_core_full_version();  control enters the function
Call(t) ==
  /\ pc[t] = "idle"
  /\ calls[t] < MaxCalls
  /\ pc' = [pc EXCEPT ![t] = "entry"]
  /\ ret' = [ret EXCEPT ![t] = NULL]
  /\ cursor' = [cursor EXCEPT ![t] = 0]
  /\ decoded' = [decoded EXCEPT ![t] = <<>>]
  /\ UNCHANGED <<rodata, version, slice, calls, held, observed>>

\* VERSION: the read of the static
LoadVERSION(t) ==
  /\ pc[t] = "entry"
  /\ slice' = [slice EXCEPT ![t] = version]
  /\ pc' = [pc EXCEPT ![t] = "loaded"]
  /\ UNCHANGED <<rodata, version, ret, cursor, decoded, calls, held, observed>>

\* a version that formats the call count into the buffer before returning it
Return_rewriting(t) ==
  /\ pc[t] = "loaded"
  /\ rodata' = [rodata EXCEPT ![slice[t].ptr + 4] = 49 + calls[t]]
  /\ ret' = [ret EXCEPT ![t] = as_ptr(slice[t])]
  /\ slice' = [slice EXCEPT ![t] = NoSlice]
  /\ pc' = [pc EXCEPT ![t] = "returned"]
  /\ UNCHANGED <<version, cursor, decoded, calls, held, observed>>

\* a version that goes through CString::new(VERSION).unwrap(), which panics on
\* the zero byte inside VERSION
Return_via_cstring(t) ==
  /\ pc[t] = "loaded"
  /\ IF \E a \in slice[t].ptr..(slice[t].ptr + slice[t].len - 1) : rodata[a] = 0
     THEN /\ pc' = [pc EXCEPT ![t] = "panicked"]
          /\ UNCHANGED ret
     ELSE /\ pc' = [pc EXCEPT ![t] = "returned"]
          /\ ret' = [ret EXCEPT ![t] = as_ptr(slice[t])]
  /\ slice' = [slice EXCEPT ![t] = NoSlice]
  /\ UNCHANGED <<rodata, version, cursor, decoded, calls, held, observed>>

\* a version that waits until no other caller is inside the function
Return_exclusive(t) ==
  /\ pc[t] = "loaded"
  /\ \A u \in Threads \ {t} : pc[u] \notin {"entry", "loaded"}
  /\ ret' = [ret EXCEPT ![t] = as_ptr(slice[t])]
  /\ slice' = [slice EXCEPT ![t] = NoSlice]
  /\ pc' = [pc EXCEPT ![t] = "returned"]
  /\ UNCHANGED <<rodata, version, cursor, decoded, calls, held, observed>>

\* VERSION.as_ptr() as *const c_char, returned to the caller
Return(t) ==
  /\ pc[t] = "loaded"
  /\ ret' = [ret EXCEPT ![t] = as_ptr(slice[t])]
  /\ slice' = [slice EXCEPT ![t] = NoSlice]
  /\ pc' = [pc EXCEPT ![t] = "returned"]
  /\ UNCHANGED <<rodata, version, cursor, decoded, calls, held, observed>>

----------------------------------------------------------------------------
(* the caller *)

\* assert!(!version_ptr.is_null());
AssertNotNull(t) ==
  /\ pc[t] = "returned"
  /\ pc' = [pc EXCEPT ![t] = IF is_null(ret[t]) THEN "panicked" ELSE "scanning"]
  /\ UNCHANGED <<rodata, version, slice, ret, cursor, decoded, calls, held, observed>>

\* the reader has the byte b of offset cursor[t]
ReadByte(t, b) ==
  IF b = 0
  THEN /\ pc' = [pc EXCEPT ![t] = "scanned"]
       /\ UNCHANGED <<cursor, decoded>>
  ELSE /\ decoded' = [decoded EXCEPT ![t] = Append(@, b)]
       /\ cursor' = [cursor EXCEPT ![t] = @ + 1]
       /\ UNCHANGED pc

\* CStr::from_ptr(version_ptr): one byte of the scan for the terminator.  A read
\* outside the allocation is undefined behaviour: any byte, or a crash (-1).
FromPtrStep(t) ==
  /\ pc[t] = "scanning"
  /\ LET a == ret[t] + cursor[t] IN
       IF a \in DOMAIN rodata
       THEN ReadByte(t, rodata[a])
       ELSE \E o \in Byte \cup {-1} :
              IF o = -1
              THEN /\ pc' = [pc EXCEPT ![t] = "crashed"]
                   /\ UNCHANGED <<cursor, decoded>>
              ELSE ReadByte(t, o)
  /\ UNCHANGED <<rodata, version, slice, ret, calls, held, observed>>

\* version_cstr.to_str().unwrap()
ToStr(t) ==
  /\ pc[t] = "scanned"
  /\ pc' = [pc EXCEPT ![t] = IF to_str_ok(decoded[t]) THEN "decoded" ELSE "panicked"]
  /\ UNCHANGED <<rodata, version, slice, ret, cursor, decoded, calls, held, observed>>

\* assert!(!version_str.is_empty()); assert_eq!(version_str, "0.0.1");
\* then the caller keeps the pointer and goes on
AssertContent(t) ==
  /\ pc[t] = "decoded"
  /\ IF ~is_empty(decoded[t]) /\ decoded[t] = Expected
     THEN /\ pc' = [pc EXCEPT ![t] = "idle"]
          /\ calls' = [calls EXCEPT ![t] = @ + 1]
          /\ held' = [held EXCEPT ![t] = IF calls[t] = 0 THEN ret[t] ELSE @]
          /\ observed' = [observed EXCEPT ![t] = Append(@, decoded[t])]
     ELSE /\ pc' = [pc EXCEPT ![t] = "panicked"]
          /\ UNCHANGED <<calls, held, observed>>
  /\ UNCHANGED <<rodata, version, slice, ret, cursor, decoded>>

----------------------------------------------------------------------------

Next ==
  \E t \in Threads :
    \/ Call(t)
    \/ LoadVERSION(t)
    \/ Return(t)
    \/ AssertNotNull(t)
    \/ FromPtrStep(t)
    \/ ToStr(t)
    \/ AssertContent(t)

Spec == Init /\ [][Next]_vars

\* every thread that can take a step is eventually scheduled
FairSpec ==
  /\ Init /\ [][Next]_vars
  /\ \A t \in Threads :
       /\ WF_vars(LoadVERSION(t))
       /\ WF_vars(Return(t))

----------------------------------------------------------------------------
(* properties *)

\* the thread holds the result of a call it has not yet finished examining
HasResult(t) == pc[t] \in {"returned", "scanning", "scanned", "decoded"}

\* the thread is inside sf_core_full_version()
InCall(t) == pc[t] \in {"entry", "loaded"}

\* all the contents any completed call has decoded
AllObserved == UNION {{observed[t][i] : i \in 1..Len(observed[t])} : t \in Threads}

\* C1: every call, the first as well as one made after earlier calls, returns a
\* pointer that is not null.
C1_NeverNull ==
  \A t \in Threads : HasResult(t) => ret[t] # NULL

C1_Witness ==
  \E t \in Threads : pc[t] = "returned" /\ calls[t] >= 1 /\ ret[t] # NULL

\* C2: the bytes at the returned pointer up to the first zero byte are exactly
\* the five characters "0.0.1" (48 46 48 46 49), hence not empty.
C2_DecodesTo001 ==
  \A t \in Threads :
    /\ pc[t] \in {"scanned", "decoded"} =>
         /\ decoded[t] = <<48, 46, 48, 46, 49>>
         /\ Len(decoded[t]) = 5
    /\ HasResult(t) => from_ptr(rodata, ret[t]) = <<48, 46, 48, 46, 49>>

C2_Witness ==
  \E t \in Threads : pc[t] = "decoded" /\ Len(decoded[t]) = 5 /\ decoded[t][5] = 49

\* C3: any two invocations in the process, by the same thread or by different
\* ones, with any number of invocations before or between them, decode to the
\* same bytes.
C3_SameContent ==
  /\ \A x, y \in AllObserved : x = y
  /\ \A t \in Threads : pc[t] = "decoded" => \A x \in AllObserved : x = decoded[t]

C3_Witness ==
  \E t, u \in Threads :
    /\ t # u
    /\ Len(observed[t]) >= 2
    /\ Len(observed[u]) >= 1
    /\ pc[u] = "decoded"

\* the thread is between its call and the end of its reading of the result
InFlight(t) == pc[t] \in {"entry", "loaded", "returned", "scanning", "scanned"}

\* thread t takes the step
Moves(t) == pc'[t] # pc[t] \/ cursor'[t] # cursor[t]

\* the shared locations a step writes: bytes of the literal, and the static
WrittenBytes == {a \in DOMAIN rodata : a \notin DOMAIN rodata' \/ rodata'[a] # rodata[a]}
WritesStatic == version' # version

\* the shared locations a call and the reading of its result read
ReadBytes == version.ptr..(version.ptr + version.len - 1)

NoRaceStep ==
  \A t, u \in Threads :
    (t # u /\ Moves(t) /\ InFlight(u)) =>
      /\ WrittenBytes \cap ReadBytes = {}
      /\ ~WritesStatic

BothObserve001 ==
  \A t, u \in Threads :
    (t # u /\ pc[t] = "decoded" /\ pc[u] # "idle") => decoded[t] = <<48, 46, 48, 46, 49>>

\* C4: with several threads calling concurrently, under every interleaving each
\* thread observes "0.0.1", and no step of a call writes a location that
\* another call in flight reads.
C4_ConcurrentCallers == []BothObserve001 /\ [][NoRaceStep]_vars

C4_Witness ==
  \E t, u \in Threads :
    /\ t # u
    /\ pc[t] = "decoded" /\ decoded[t] = <<48, 46, 48, 46, 49>>
    /\ pc[u] = "loaded"

\* C5: a pointer obtained from an earlier call stays valid: after any later
\* calls, by any thread, it still points into the literal and the C string
\* behind it is still "0.0.1".
C5_HeldPointerValid ==
  \A t \in Threads :
    held[t] # NULL =>
      /\ held[t] \in DOMAIN rodata
      /\ from_ptr(rodata, held[t]) = <<48, 46, 48, 46, 49>>

C5_Witness ==
  \E t, u \in Threads :
    /\ t # u
    /\ held[t] # NULL
    /\ calls[t] >= 2
    /\ calls[u] >= 1

\* what a step of thread t inside the function leaves alone: the literal, the
\* static, its own record of earlier calls, and everything of the other threads
Frame(t) ==
  /\ rodata' = rodata
  /\ version' = version
  /\ calls' = calls /\ held' = held /\ observed' = observed
  /\ \A u \in Threads \ {t} :
       /\ pc'[u] = pc[u] /\ slice'[u] = slice[u] /\ ret'[u] = ret[u]
       /\ cursor'[u] = cursor[u] /\ decoded'[u] = decoded[u]

\* thread t takes a step of the function: it enters, loads, or returns
CallStep(t) ==
  /\ pc[t] \in {"idle", "entry", "loaded"}
  /\ pc'[t] # pc[t]

\* C6: a call changes nothing: every step from entering the function to
\* returning from it leaves the bytes of the version string, the static and
\* all other state as they were.
C6_CallChangesNothing == [][\A t \in Threads : CallStep(t) => Frame(t)]_vars

C6_Witness ==
  \E t, u \in Threads :
    /\ t # u
    /\ pc[t] = "returned" /\ calls[t] >= 1
    /\ pc[u] = "scanning" /\ cursor[u] >= 1

\* C7: the function is total: a call that has started can always take its next
\* step, it ends with the version pointer, and no thread ever ends in a
\* failure (a panic or a crash).
C7_Total ==
  \A t \in Threads :
    /\ pc[t] \notin {"panicked", "crashed"}
    /\ pc[t] = "entry" => ENABLED LoadVERSION(t)
    /\ pc[t] = "loaded" => ENABLED Return(t)
    /\ pc[t] = "returned" => ret[t] = version.ptr

C7_Witness ==
  \E t, u \in Threads :
    /\ t # u
    /\ pc[t] = "returned" /\ ret[t] = version.ptr
    /\ pc[u] = "loaded"

\* s is MAJOR.MINOR.PATCH: digits (48..57) and exactly two '.' (46), no run of
\* digits empty
IsSemVer(s) ==
  /\ \A i \in 1..Len(s) : s[i] = 46 \/ (s[i] >= 48 /\ s[i] <= 57)
  /\ Cardinality({i \in 1..Len(s) : s[i] = 46}) = 2
  /\ Len(s) >= 1 /\ s[1] # 46 /\ s[Len(s)] # 46
  /\ \A i \in 1..(Len(s) - 1) : ~(s[i] = 46 /\ s[i + 1] = 46)

\* C8: the returned content has the form MAJOR.MINOR.PATCH.
C8_SemVerForm ==
  \A t \in Threads :
    /\ pc[t] \in {"scanned", "decoded"} => IsSemVer(decoded[t])
    /\ HasResult(t) => IsSemVer(from_ptr(rodata, ret[t]))

C8_Witness ==
  \E t \in Threads :
    /\ pc[t] = "scanned"
    /\ Cardinality({i \in 1..Len(decoded[t]) : decoded[t][i] = 46}) = 2

EveryCallReturns == \A t \in Threads : (pc[t] = "entry") ~> (pc[t] = "returned")

NeverBlocked ==
  \A t \in Threads :
    /\ pc[t] = "entry" => ENABLED LoadVERSION(t)
    /\ pc[t] = "loaded" => ENABLED Return(t)

StraightLine ==
  \A t \in Threads :
    /\ pc[t] = "entry" => pc'[t] \in {"entry", "loaded"}
    /\ pc[t] = "loaded" => pc'[t] \in {"loaded", "returned"}

\* C9: every started call returns after its two steps, whatever the other
\* callers do: it is never blocked and never goes back.
C9_CallsComplete == EveryCallReturns /\ []NeverBlocked /\ [][StraightLine]_vars

C9_Witness ==
  \A t \in Threads : pc[t] = "loaded"

\* C10: the buffer is 6 bytes with its only zero byte at offset 5, and a reader
\* that starts at the pointer stays inside it and stops at offset 5.
C10_Buffer ==
  /\ version.len = 6
  /\ DOMAIN rodata = version.ptr..(version.ptr + 5)
  /\ \A a \in DOMAIN rodata : rodata[a] = 0 <=> a = version.ptr + 5
  /\ \A t \in Threads :
       /\ pc[t] = "scanning" => ret[t] + cursor[t] \in DOMAIN rodata
       /\ pc[t] = "scanned" => cursor[t] = 5 /\ Len(decoded[t]) = 5

C10_Witness ==
  \E t \in Threads : pc[t] = "scanned" /\ cursor[t] = 5 /\ rodata[ret[t] + cursor[t]] = 0

====
